---------------------------- MODULE Spec2Model ----------------------------
(***************************************************************************)
(* Model of BayesianLinReg.__init__ (the adaptive multiple-proposal        *)
(* importance sampler) of src/BayesianLinearRegression/BayesianLinReg.py.  *)
(*                                                                         *)
(* Numbers.  Real quantities are exact rationals <<num, den>> in lowest    *)
(* terms.  A d-dimensional vector is represented by one of its coordinates *)
(* and a d x d matrix by the matching diagonal entry: every accumulation   *)
(* of the loop (weighted sum, running mean, weighted outer product) acts   *)
(* coordinate by coordinate.  Log-weights are integers, read as base-2     *)
(* logarithms; exp is the power of two and overflows to infinity above     *)
(* ExpMax, as the floating-point exp does above its largest exponent.      *)
(*                                                                         *)
(* Arrays are functions on 0 .. len-1, indexed as in the source.           *)
(***************************************************************************)
EXTENDS Integers, Sequences, FiniteSets, TLC

(***************************************************************************)
(* Bounds of the model.                                                    *)
(***************************************************************************)
MaxD == 2
MaxN == 3
MaxPowerOfTwo == 3
MaxWeightIn == 2
MaxSeed == 1
MaxLog == 1
ExpMax == 2
MaxRichRuns == 125
MaxBurnIn == 2
UDen == 6

(***************************************************************************)
(* Rational arithmetic.                                                    *)
(***************************************************************************)
Abs(a) == IF a < 0 THEN -a ELSE a

RECURSIVE GCD(_, _)
GCD(a, b) == IF b = 0 THEN a ELSE GCD(b, a % b)

\* the value of an undefined operation (0/0, the mean of no slots, the
\* quantile of a distribution of scale <= 0); it propagates through the
\* arithmetic and compares false with everything
NaN == <<0, 0>>
IsNaN(a) == a[2] = 0

RNorm(num, den) ==
    IF den = 0 THEN NaN
    ELSE LET g == GCD(Abs(num), den)
         IN  <<num \div g, den \div g>>

R(i) == <<i, 1>>

RAdd(a, b) ==
    IF IsNaN(a) \/ IsNaN(b) THEN NaN
    ELSE LET g == GCD(a[2], b[2])
         IN  RNorm(a[1] * (b[2] \div g) + b[1] * (a[2] \div g),
                   (a[2] \div g) * b[2])

RNeg(a) == <<-a[1], a[2]>>
RSub(a, b) == RAdd(a, RNeg(b))

RMul(a, b) ==
    IF IsNaN(a) \/ IsNaN(b) THEN NaN
    ELSE LET g1 == GCD(Abs(a[1]), b[2])
             g2 == GCD(Abs(b[1]), a[2])
         IN  <<(a[1] \div g1) * (b[1] \div g2), (a[2] \div g2) * (b[2] \div g1)>>

RDivInt(a, k) ==
    IF IsNaN(a) \/ k = 0 THEN NaN
    ELSE LET g == GCD(Abs(a[1]), k)
         IN  <<a[1] \div g, a[2] * (k \div g)>>

RLess(a, b) ==
    IF IsNaN(a) \/ IsNaN(b) THEN FALSE
    ELSE LET g == GCD(a[2], b[2])
         IN  a[1] * (b[2] \div g) < b[1] * (a[2] \div g)

\* int(a / b) for b # 0: the quotient truncated towards zero
TruncDiv(a, b) ==
    IF (a >= 0) = (b > 0) THEN Abs(a) \div Abs(b) ELSE -(Abs(a) \div Abs(b))

\* the bound k of a slice arr[k:] or arr[:k] of an array of the given size
SliceBound(k, size) ==
    IF k < 0 THEN (IF size + k < 0 THEN 0 ELSE size + k)
    ELSE (IF k > size THEN size ELSE k)

RECURSIVE Pow2(_)
Pow2(k) == IF k = 0 THEN 1 ELSE 2 * Pow2(k - 1)

\* sum of arr[0 .. k-1]
RECURSIVE RSum(_, _)
RSum(arr, k) == IF k = 0 THEN R(0) ELSE RAdd(RSum(arr, k - 1), arr[k - 1])

\* np.mean(arr[:k], axis=0)
MeanSlots(arr, k) == RDivInt(RSum(arr, k), k)

\* np.cumsum
CumSum(arr) == [i \in DOMAIN arr |-> RSum(arr, i + 1)]

(***************************************************************************)
(* Construction-time arithmetic.                                           *)
(***************************************************************************)
\* number of rows of the point stream xs
StreamLen(p) == Pow2(p) - 1

NumOfIterOf_RoundedUp(dd, NN, p) == (Pow2(p) - 1 + NN - 1) \div NN
NumOfIterOf(dd, NN, p) == TruncDiv(((Pow2(p) - 1) \div (dd + 1)) * (dd + 1), NN)

MOf(w, NN) == TruncDiv(w, NN) + 1

\* indices of the rows of xs[n*N:(n+1)*N, :], a slice that stops at the end
\* of the array
BlockRows_Overlapping(k, NN, len) ==
    LET lo == IF k * (NN - 1) < len THEN k * (NN - 1) ELSE len
        hi == IF k * (NN - 1) + NN < len THEN k * (NN - 1) + NN ELSE len
    IN  [j \in 0 .. (hi - lo - 1) |-> lo + j]

BlockRows(k, NN, len) ==
    LET lo == IF k * NN < len THEN k * NN ELSE len
        hi == IF (k + 1) * NN < len THEN (k + 1) * NN ELSE len
    IN  [j \in 0 .. (hi - lo - 1) |-> lo + j]


(***************************************************************************)
(* The point stream (SeedGen).  Row r of the pre-materialised array is     *)
(* represented by z, the displacement that the affine map of lines 139-140 *)
(* gives to the candidate drawn from the first d columns, and by u, the    *)
(* entry of the last column, a rational of [0,1).                          *)
(***************************************************************************)
StreamRow(s, r) ==
    [z |-> IF s = 0 THEN 0 ELSE ((s + r) % 3) - 1,
     u |-> RNorm((s + r) % UDen, UDen)]

(***************************************************************************)
(* Weight normalisation, lines 163-167.                                    *)
(***************************************************************************)
Range(f) == {f[i] : i \in DOMAIN f}

\* np.sort
SortAsc(L) ==
    [i \in DOMAIN L |->
        CHOOSE v \in Range(L) :
            /\ Cardinality({j \in DOMAIN L : L[j] < v}) <= i
            /\ i < Cardinality({j \in DOMAIN L : L[j] <= v})]

\* the arguments of np.exp at line 166: Sorted_LogPstates[1:] - Sorted_LogPstates[0]
ExpArgs(L) ==
    LET S == SortAsc(L)
    IN  [j \in 0 .. (Cardinality(DOMAIN L) - 2) |-> S[j + 1] - S[0]]

\* np.exp of a non-negative argument: a finite power, or inf on overflow
Exp(k) ==
    IF k > ExpMax THEN [inf |-> TRUE, val |-> 0]
    ELSE [inf |-> FALSE, val |-> Pow2(k)]

\* 1 + np.sum(np.exp(...)) over the first k arguments
RECURSIVE OnePlusSumExp(_, _)
OnePlusSumExp(args, k) ==
    IF k = 0 THEN [inf |-> FALSE, val |-> 1]
    ELSE LET rest == OnePlusSumExp(args, k - 1)
             e == Exp(args[k - 1])
         IN  IF rest.inf \/ e.inf THEN [inf |-> TRUE, val |-> 0]
             ELSE [inf |-> FALSE, val |-> rest.val + e.val]

\* the log-normaliser Sorted[0] + log(q), kept as the pair (Sorted[0], q)
LogNormaliser(L) ==
    [anchor |-> SortAsc(L)[0],
     q |-> OnePlusSumExp(ExpArgs(L), Cardinality(DOMAIN L) - 1)]

\* Pstates = np.exp(LogPstates - normaliser); exp(-inf) is 0
Normalise(L) ==
    LET Z == LogNormaliser(L)
    IN  [i \in DOMAIN L |->
            IF Z.q.inf THEN R(0)
            ELSE RNorm(Pow2(L[i] - Z.anchor), Z.q.val)]

(***************************************************************************)
(* Resampling, lines 199-210.                                              *)
(***************************************************************************)
\* np.searchsorted(a, v), default side 'left': bisection on a[lo .. hi-1]
RECURSIVE Bisect_Right(_, _, _, _)
Bisect_Right(a, v, lo, hi) ==
    IF lo >= hi THEN lo
    ELSE LET mid == lo + ((hi - lo) \div 2)
         IN  IF ~RLess(v, a[mid]) THEN Bisect_Right(a, v, mid + 1, hi)
             ELSE Bisect_Right(a, v, lo, mid)

RECURSIVE Bisect(_, _, _, _)
Bisect(a, v, lo, hi) ==
    IF lo >= hi THEN lo
    ELSE LET mid == lo + ((hi - lo) \div 2)
         IN  IF RLess(a[mid], v) THEN Bisect(a, v, mid + 1, hi)
             ELSE Bisect(a, v, lo, mid)

SearchSorted(a, v) == Bisect(a, v, 0, Cardinality(DOMAIN a))

\* I = Is[-1]
LastIndex_First(is) == is[0]
LastIndex(is) == is[Cardinality(DOMAIN is) - 1]

(***************************************************************************)
(* Adaptive proposal state, lines 121-122 and 187-192.                     *)
(***************************************************************************)
\* n > 2*d/N
RefreshGuard_AtThreshold(k, dd, NN) == k * NN >= 2 * dd
RefreshGuard(k, dd, NN) == k * NN > 2 * dd

\* the number of slots of self.WeightedSum[:n+M+1, :]
MeanSliceLen_NoFreshSlot(k, m) == k + m
MeanSliceLen(k, m) == k + m + 1

\* the number of slots of self.WeightedCov[:n+M+1, :, :]
CovSliceLen_NoFreshSlot(k, m) == k + m
CovSliceLen(k, m) == k + m + 1

\* the slot of the accumulators that iteration k writes: [n+M, :]
SlotOf_LastSeeded(k, m) == k + m - 1
SlotOf(k, m) == k + m

\* np.linalg.cholesky(c): the factor whose square is c
Cholesky(c) == [sq |-> c]

\* np.linalg.cholesky raises LinAlgError unless c is positive definite
PosDef(c) == ~IsNaN(c) /\ c[1] > 0

\* line 192, InvApprPostCov after the covariance has been refreshed
RefreshedInverse_Stale(c, old) == <<old[2], old[1]>>
RefreshedInverse(c, old) == <<c[2], c[1]>>

\* line 205, AcceptValsNew = 1. - Pstates[Is]
AcceptValsNew_ByPosition(P, is) == [j \in DOMAIN is |-> RSub(R(1), P[j])]
AcceptValsNew(P, is) == [j \in DOMAIN is |-> RSub(R(1), P[is[j]])]

\* lines 139-140: a candidate at the displacement z from the proposal mean;
\* norm.ppf gives nan for a scale that is not positive
Candidate(mean, z, step) == IF step <= 0 THEN NaN ELSE RAdd(mean, R(z))

\* np.linalg.inv(c)
Inverse(c) == <<c[2], c[1]>>

(***************************************************************************)
(* State of the constructor.                                               *)
(***************************************************************************)
VARIABLES
    d, N, PowerOfTwo, WeightIn, Stream, x0, InitMean, InitCov, StepSize,
    NumOfIter, M,
    pc, n,
    xVals, AcceptVals, xI,
    WeightedSum, WeightedCov,
    ApprPostMean, ApprPostCov, CholApprPostCov, InvApprPostCov,
    U, Proposals, LogPstates, Pstates, Is,
    rowsRead,
    kernel,     \* the proposal parameters read at lines 139 and 157
    result      \* the last query and what it returned

config == <<d, N, PowerOfTwo, WeightIn, Stream, x0, InitMean, InitCov, StepSize,
            NumOfIter, M>>
locals == <<U, Proposals, LogPstates, Pstates, Is>>
engine == <<pc, n, xVals, AcceptVals, xI, WeightedSum, WeightedCov,
            ApprPostMean, ApprPostCov, CholApprPostCov, InvApprPostCov>>
vars == <<config, engine, locals, rowsRead, kernel, result>>

\* an array without entries; the loop's locals before the first iteration
Unbound == [i \in {} |-> 0]

\* the values the scoring (LogPosteriors + LogKs) gives to the proposals of
\* one iteration: all equal, or one proposal standing out by a value of
\* LogVals.  Only the runs short enough to have at most MaxRichRuns scoring
\* sequences (Rich) are scored this way; the longer runs are scored
\* uniformly, start at the initial mean and read the stream of seed 0, which
\* keeps their rationals within the range of the model checker's integers.
\* b^k <= budget
RECURSIVE Fits(_, _, _)
Fits(b, k, budget) ==
    IF k = 0 THEN budget >= 1
    ELSE budget >= b /\ Fits(b, k - 1, budget \div b)

LogVals == (1 .. MaxLog) \cup {ExpMax + 1}

Rich(iters, NN) == Fits(1 + (NN + 1) * Cardinality(LogVals), iters, MaxRichRuns)

LogProfiles(len) ==
    {[i \in 0 .. len |-> 0]} \cup
    (IF Rich(NumOfIter, N)
     THEN {[i \in 0 .. len |-> IF i = h THEN v ELSE 0] :
              h \in 0 .. len, v \in LogVals}
     ELSE {})

X0s == {0, 1}
InitMeans == {0}
InitCovs == {1}

StepSizes == {1}

\* lines 87-122 for the given arguments: the state when the loop is entered,
\* or the state in which the constructor raises
\*   ZeroDivisionError at line 92   (N = 0),
\*   ValueError at line 108         (negative array size),
\*   LinAlgError at line 121        (InitCov not positive definite)
Construct(dd, NN, p, w, s, x, m0, c0, step) ==
    LET iters == IF NN = 0 THEN 0 ELSE NumOfIterOf(dd, NN, p)
        m == IF NN = 0 THEN 0 ELSE MOf(w, NN)
        size == iters + m
        at == IF NN = 0 THEN "ZeroDivisionError"
              ELSE IF size < 0 THEN "ValueError"
              ELSE IF ~PosDef(R(c0)) THEN "LinAlgError"
              ELSE "loop"
        allocated == at \in {"LinAlgError", "loop"}
    IN  /\ d = dd /\ N = NN /\ PowerOfTwo = p /\ WeightIn = w /\ Stream = s
        /\ x0 = R(x) /\ InitMean = R(m0) /\ InitCov = R(c0) /\ StepSize = step
        /\ NumOfIter = iters
        /\ M = m
        /\ xVals = <<R(x)>>
        /\ AcceptVals = <<>>
        /\ xI = IF NN = 0 THEN Unbound ELSE R(x)
        /\ WeightedSum = IF allocated
                         THEN [i \in 0 .. (size - 1) |->
                                 IF i < SliceBound(m, size) THEN R(m0) ELSE R(0)]
                         ELSE Unbound
        /\ WeightedCov = IF allocated
                         THEN [i \in 0 .. (size - 1) |->
                                 IF i < SliceBound(m, size) THEN R(c0) ELSE R(0)]
                         ELSE Unbound
        /\ ApprPostMean = IF allocated THEN R(m0) ELSE Unbound
        /\ ApprPostCov = IF allocated THEN R(c0) ELSE Unbound
        /\ CholApprPostCov = IF at = "loop" THEN Cholesky(R(c0)) ELSE Unbound
        /\ InvApprPostCov = IF at = "loop" THEN <<c0, 1>> ELSE Unbound
        /\ pc = at
        /\ n = -1
        /\ U = Unbound /\ Proposals = Unbound /\ LogPstates = Unbound
        /\ Pstates = Unbound /\ Is = Unbound
        /\ rowsRead = <<>>
        /\ kernel = Unbound
        /\ result = [op |-> "none"]

\* the constructions with valid arguments
Init ==
    \E dd \in 1 .. MaxD, NN \in 1 .. MaxN, p \in 1 .. MaxPowerOfTwo,
       w \in 0 .. MaxWeightIn, s \in 0 .. MaxSeed,
       x \in X0s, m0 \in InitMeans, c0 \in InitCovs, step \in StepSizes :
        /\ (~Rich(NumOfIterOf(dd, NN, p), NN) => s = 0 /\ x = m0)
        /\ Construct(dd, NN, p, w, s, x, m0, c0, step)

\* np.sum(np.tile(Pstates, (d,1)) * Proposals.T, axis=1)
WeightedState(P, X) ==
    RSum([i \in DOMAIN X |-> RMul(P[i], X[i])], Cardinality(DOMAIN X))

\* np.sum((np.tile(Pstates, (d,d,1)) * A.T).T, axis=0), A the outer products
\* of Proposals - mean
WeightedOuter(P, X, mean) ==
    RSum([i \in DOMAIN X |->
            RMul(P[i], RMul(RSub(X[i], mean), RSub(X[i], mean)))],
         Cardinality(DOMAIN X))

\* the rows of a block appended to the read log
RECURSIVE AppendRows(_, _, _)
AppendRows(log, rows, k) ==
    IF k = 0 THEN log ELSE Append(AppendRows(log, rows, k - 1), rows[k - 1])

\* lines 129-210: one pass through the loop body, with index k = n + 1
Iteration ==
    /\ pc = "loop"
    /\ n + 1 < NumOfIter
    /\ LET k == n + 1
           rows == BlockRows(k, N, StreamLen(PowerOfTwo))
           block == [j \in DOMAIN rows |-> StreamRow(Stream, rows[j])]
           len == Cardinality(DOMAIN rows)
           props == [i \in 0 .. len |->
                        IF i = 0 THEN xI
                        ELSE Candidate(ApprPostMean, block[i - 1].z, StepSize)]
           refresh == RefreshGuard(k, d, N)
       IN  \E L \in (IF StepSize <= 0 THEN {[i \in 0 .. len |-> NaN]}
                     ELSE LogProfiles(len)) :
           \E P \in {IF StepSize <= 0 THEN L ELSE Normalise(L)} :
           \E ws \in {[WeightedSum EXCEPT ![SlotOf(k, M)] = WeightedState(P, props)]} :
           \E mean \in {MeanSlots(ws, MeanSliceLen(k, M))} :
           \E wc \in {[WeightedCov EXCEPT
                         ![SlotOf(k, M)] = WeightedOuter(P, props, mean)]} :
           \E cov \in {IF refresh
                       THEN MeanSlots(wc, CovSliceLen(k, M)) ELSE ApprPostCov} :
           \E cs \in {CumSum(P)} :
           \E is \in {[j \in DOMAIN rows |-> SearchSorted(cs, block[j].u)]} :
                 /\ n' = k
                 /\ U' = block
                 /\ rowsRead' = AppendRows(rowsRead, rows, len)
                 /\ kernel' = [yMean |-> ApprPostMean, yChol |-> CholApprPostCov,
                               kMean |-> ApprPostMean, kInv |-> InvApprPostCov]
                 /\ Proposals' = props
                 /\ LogPstates' = L
                 /\ Pstates' = P
                 /\ WeightedSum' = ws
                 /\ ApprPostMean' = mean
                 /\ WeightedCov' = wc
                 /\ ApprPostCov' = cov
                 /\ IF refresh /\ ~PosDef(cov)
                    THEN \* np.linalg.cholesky raises LinAlgError at line 191
                         /\ InvApprPostCov' = Inverse(ApprPostCov)
                         /\ UNCHANGED <<CholApprPostCov, Is, xVals, AcceptVals, xI>>
                         /\ pc' = "LinAlgError"
                    ELSE /\ CholApprPostCov' = IF refresh
                                               THEN Cholesky(cov) ELSE CholApprPostCov
                         /\ InvApprPostCov' = IF refresh
                                              THEN RefreshedInverse(cov, ApprPostCov)
                                              ELSE Inverse(ApprPostCov)
                         /\ Is' = is
                         /\ IF len > 0 /\ \A j \in DOMAIN is : is[j] <= len
                            THEN /\ xVals' = Append(xVals,
                                                [j \in DOMAIN is |-> props[is[j]]])
                                 /\ AcceptVals' = Append(AcceptVals,
                                                         AcceptValsNew(P, is))
                                 /\ xI' = props[LastIndex(is)]
                                 /\ pc' = "loop"
                            ELSE \* Proposals[Is] raises IndexError at line 201
                                 /\ UNCHANGED <<xVals, AcceptVals, xI>>
                                 /\ pc' = "IndexError"
    /\ UNCHANGED <<config, result>>

\* range(NumOfIter) is exhausted: the constructor returns
Return ==
    /\ pc = "loop"
    /\ n + 1 >= NumOfIter
    /\ pc' = "done"
    /\ UNCHANGED <<config, n, xVals, AcceptVals, xI, WeightedSum, WeightedCov,
                   ApprPostMean, ApprPostCov, CholApprPostCov, InvApprPostCov,
                   locals, rowsRead, kernel, result>>

Size(arr) == Cardinality(DOMAIN arr)

\* np.concatenate(batches[skip:], axis=0): the rows of the batches after the
\* first skip ones, in order, up to the batch numbered upto
RECURSIVE Concatenate(_, _, _)
Concatenate(batches, skip, upto) ==
    IF upto <= skip THEN <<>>
    ELSE AppendRows(Concatenate(batches, skip, upto - 1), batches[upto],
                    Size(batches[upto]))

\* arr[start:] of a python sequence held as a TLA+ sequence
SliceFrom(seq, start) == SubSeq(seq, SliceBound(start, Len(seq)) + 1, Len(seq))

\* np.mean of a sequence of values: nan for none
RECURSIVE SeqSum(_)
SeqSum(seq) == IF seq = <<>> THEN R(0) ELSE RAdd(seq[1], SeqSum(SliceFrom(seq, 1)))
SeqMean(seq) == RDivInt(SeqSum(seq), Len(seq))

\* the first slot of the accumulators that enters an estimate: int(BurnIn/N)
ISStart_Undivided(BurnIn, NN) == BurnIn
ISStart(BurnIn, NN) == TruncDiv(BurnIn, NN)

\* np.mean(arr[start:, :], axis=0) of an accumulator indexed from 0
RECURSIVE SlotSum(_, _, _)
SlotSum(arr, lo, hi) ==
    IF lo >= hi THEN R(0) ELSE RAdd(arr[lo], SlotSum(arr, lo + 1, hi))
MeanFrom(arr, start) ==
    LET lo == SliceBound(start, Size(arr))
    IN  RDivInt(SlotSum(arr, lo, Size(arr)), Size(arr) - lo)

BurnIns == 0 .. MaxBurnIn

\* what a query leaves when it returns v, and when it raises e
Returned(name, b, v) == [op |-> name, BurnIn |-> b, raised |-> "", value |-> v]
Raised(name, b, e) == [op |-> name, BurnIn |-> b, raised |-> e, value |-> NaN]

\* lines 213-231, getSamples(BurnIn): np.concatenate raises ValueError when
\* there is no batch after the seed
GetSamples_Consuming ==
    /\ pc = "done"
    /\ \E b \in BurnIns :
          result' = IF Len(xVals) <= 1
                    THEN Raised("getSamples", b, "ValueError")
                    ELSE Returned("getSamples", b,
                                  SliceFrom(Concatenate(xVals, 1, Len(xVals)), b))
    /\ xVals' = <<xVals[1]>>
    /\ UNCHANGED <<config, pc, n, AcceptVals, xI, WeightedSum, WeightedCov,
                   ApprPostMean, ApprPostCov, CholApprPostCov, InvApprPostCov,
                   locals, rowsRead, kernel>>
GetSamples ==
    /\ pc = "done"
    /\ \E b \in BurnIns :
          result' = IF Len(xVals) <= 1
                    THEN Raised("getSamples", b, "ValueError")
                    ELSE Returned("getSamples", b,
                                  SliceFrom(Concatenate(xVals, 1, Len(xVals)), b))
    /\ UNCHANGED <<config, engine, locals, rowsRead, kernel>>

\* lines 234-253, getAcceptRate(BurnIn): np.concatenate(self.AcceptVals)
GetAcceptRate ==
    /\ pc = "done"
    /\ \E b \in BurnIns :
          result' = IF Len(AcceptVals) = 0
                    THEN Raised("getAcceptRate", b, "ValueError")
                    ELSE Returned("getAcceptRate", b,
                           SeqMean(SliceFrom(Concatenate(AcceptVals, 0, Len(AcceptVals)), b)))
    /\ UNCHANGED <<config, engine, locals, rowsRead, kernel>>

\* lines 256-276, getIS_MeanEstimate(N, BurnIn), called with the engine's N
GetIS_MeanEstimate ==
    /\ pc = "done"
    /\ \E b \in BurnIns :
          result' = Returned("getIS_MeanEstimate", b,
                             MeanFrom(WeightedSum, ISStart(b, N)))
    /\ UNCHANGED <<config, engine, locals, rowsRead, kernel>>

\* lines 302-321, getIS_CovEstimate(N, BurnIn), called with the engine's N
GetIS_CovEstimate ==
    /\ pc = "done"
    /\ \E b \in BurnIns :
          result' = Returned("getIS_CovEstimate", b,
                             MeanFrom(WeightedCov, ISStart(b, N)))
    /\ UNCHANGED <<config, engine, locals, rowsRead, kernel>>

Next ==
    \/ Iteration
    \/ Return
    \/ GetSamples
    \/ GetAcceptRate
    \/ GetIS_MeanEstimate
    \/ GetIS_CovEstimate

Spec == Init /\ [][Next]_vars

\* the constructions in which the number of candidates, the step size or the
\* initial covariance is not positive
InitInvalid ==
    \E dd \in 1 .. MaxD, NN \in (-MaxN) .. MaxN, p \in 1 .. MaxPowerOfTwo,
       w \in 0 .. MaxWeightIn, s \in 0 .. MaxSeed,
       x \in X0s, m0 \in InitMeans, c0 \in InitCovs \cup {0, -1},
       step \in StepSizes \cup {0, -1} :
        /\ NN <= 0 \/ step <= 0 \/ c0 <= 0
        /\ Construct(dd, NN, p, w, s, x, m0, c0, step)

SpecInvalid == InitInvalid /\ [][Next]_vars

(***************************************************************************)
(* Properties.                                                             *)
(***************************************************************************)

\* C1: every iteration n of 0 .. NumOfIter-1 satisfies (n+1)*N <= 2^p - 1,
\* so the block read by an iteration has N rows and every row read exists.
C1_RowsExist ==
    /\ \A k \in 0 .. (NumOfIter - 1) : (k + 1) * N <= Pow2(PowerOfTwo) - 1
    /\ n >= 0 => Size(U) = N
    /\ \A i \in 1 .. Len(rowsRead) : rowsRead[i] < StreamLen(PowerOfTwo)

\* the last block of a run ends on the last row of the stream
C1_Witness ==
    /\ pc = "done" /\ n >= 1 /\ n = NumOfIter - 1
    /\ (n + 1) * N = StreamLen(PowerOfTwo)

\* C2: the loop never runs more than NumOfIter iterations, has run exactly
\* NumOfIter when the constructor returns, and after the iteration with
\* index n the rows read so far are 0, 1, ..., (n+1)*N - 1 in this order,
\* each once.
C2_SequentialBlocks ==
    /\ n + 1 <= NumOfIter
    /\ pc = "done" => n = NumOfIter - 1
    /\ Len(rowsRead) = (n + 1) * N
    /\ \A i \in 1 .. Len(rowsRead) : rowsRead[i] = i - 1

\* a completed run of several iterations over blocks of several rows
C2_Witness ==
    /\ pc = "done" /\ NumOfIter >= 2 /\ N >= 2
    /\ Len(rowsRead) = NumOfIter * N

\* C3: after the iteration with index n, ApprPostMean is the arithmetic
\* mean of the WeightedSum slots 0 .. n+M: the M seeded slots, equal to
\* InitMean, and the n+1 slots written by the loop; before the first
\* iteration it is InitMean.
C3_RunningMean ==
    /\ RMul(ApprPostMean, R(n + M + 1)) = RSum(WeightedSum, n + M + 1)
    /\ \A i \in 0 .. (M - 1) : WeightedSum[i] = InitMean
    /\ n = -1 => ApprPostMean = InitMean

\* the mean after a later iteration, away from the seeded value and from
\* the slot just written
C3_Witness ==
    /\ n >= 1 /\ M >= 2
    /\ ApprPostMean # InitMean
    /\ WeightedSum[n + M] # ApprPostMean
    /\ WeightedSum[n + M] # WeightedSum[n + M - 1]

\* C4 as stated: after every iteration n, ApprPostCov is the arithmetic
\* mean of the WeightedCov slots 0 .. n+M.
C4_CovMeanEveryIteration ==
    n >= 0 => RMul(ApprPostCov, R(n + M + 1)) = RSum(WeightedCov, n + M + 1)

\* C4 amended: after an iteration n with n*N > 2d, ApprPostCov is the
\* arithmetic mean of the WeightedCov slots 0 .. n+M; after an iteration n
\* with n*N <= 2d it is still InitCov.
C4_CovMeanAfterGuard ==
    IF n * N > 2 * d
    THEN RMul(ApprPostCov, R(n + M + 1)) = RSum(WeightedCov, n + M + 1)
    ELSE ApprPostCov = InitCov

\* the covariance has been refreshed from slots written by the loop
C4_Witness ==
    /\ n * N > 2 * d /\ n >= 0
    /\ ApprPostCov # InitCov
    /\ WeightedCov[n + M] # R(0)

\* C5: an iteration n with n*N <= 2d leaves ApprPostCov and its Cholesky
\* factor at their construction-time values; every iteration n with
\* n*N > 2d, the first of them included, sets the factor to that of the
\* mean of the WeightedCov slots 0 .. n+M.  Only n, d and N decide.
C5_CovGuard ==
    [][n' = n + 1 =>
        IF n' * N <= 2 * d
        THEN /\ ApprPostCov = InitCov
             /\ CholApprPostCov = Cholesky(InitCov)
             /\ UNCHANGED <<ApprPostCov, CholApprPostCov>>
        ELSE /\ ApprPostCov' = MeanSlots(WeightedCov', n' + M + 1)
             /\ CholApprPostCov' = Cholesky(ApprPostCov')]_vars

\* d = 2, N = 1: the covariance has moved after iteration 5
C5_Witness ==
    /\ d = 2 /\ N = 1 /\ n = 5
    /\ ApprPostCov # InitCov
    /\ CholApprPostCov # Cholesky(InitCov)

\* C6: the weight vector of an iteration has N+1 entries, none negative,
\* which sum to 1.
C6_WeightsSumToOne ==
    n >= 0 =>
        /\ Size(Pstates) = N + 1
        /\ \A i \in DOMAIN Pstates : Pstates[i][1] >= 0
        /\ RSum(Pstates, Size(Pstates)) = R(1)

\* C7: every argument passed to exp while the log-normaliser is computed
\* is <= 0.
C7_ExpArgsNonPositive ==
    n >= 0 => \A j \in DOMAIN ExpArgs(LogPstates) : ExpArgs(LogPstates)[j] <= 0

\* C8: the proposal set of an iteration has N+1 entries; entry 0 is x0 in
\* iteration 0 and, in a later iteration, the proposal of the previous
\* iteration selected by its last resampling draw.
C8_CurrentStateFirst ==
    [][n' = n + 1 =>
        /\ Size(Proposals') = N + 1
        /\ Proposals'[0] = IF n' = 0 THEN x0 ELSE Proposals[Is[N - 1]]]_vars

\* a later iteration whose current state is a candidate of the iteration
\* before, selected by a draw other than the first one's choice
C8_Witness ==
    /\ n >= 1 /\ N >= 2
    /\ Proposals[0] # x0
    /\ Proposals[0] # ApprPostMean
    /\ pc = "loop" /\ Is[0] # Is[N - 1]

\* C9: every resampling index lies in 0 .. N.
C9_IndexInRange ==
    \A j \in DOMAIN Is : Is[j] \in 0 .. N

\* C10 as stated, for the iterations whose weights sum to 1: each draw u
\* selects the first index whose cumulative weight strictly exceeds u, and
\* the selected proposal has a weight other than 0.
C10_FirstStrictlyAbove ==
    RSum(Pstates, Size(Pstates)) = R(1) =>
        \A j \in DOMAIN Is :
            /\ Is[j] \in 0 .. N
            /\ RLess(U[j].u, CumSum(Pstates)[Is[j]])
            /\ \A k \in 0 .. (Is[j] - 1) : ~RLess(U[j].u, CumSum(Pstates)[k])
            /\ Pstates[Is[j]] # R(0)

\* C10 amended: each draw u yields the first index whose cumulative weight
\* is at least u (every cumulative weight before it is below u), or N+1
\* when no cumulative weight reaches u; a proposal of weight 0 is selected
\* only as index 0 by the draw u = 0.
C10_FirstAtLeast ==
    \A j \in DOMAIN Is :
        /\ Is[j] \in 0 .. Size(Pstates)
        /\ \A k \in 0 .. (Is[j] - 1) : RLess(CumSum(Pstates)[k], U[j].u)
        /\ Is[j] < Size(Pstates) => ~RLess(CumSum(Pstates)[Is[j]], U[j].u)
        /\ (Is[j] < Size(Pstates) /\ Pstates[Is[j]] = R(0))
              => (Is[j] = 0 /\ U[j].u = R(0))

\* a draw that equals the cumulative weight of the index it selects, with
\* a proposal of positive weight after it
C10_Witness ==
    /\ RSum(Pstates, Size(Pstates)) = R(1)
    /\ \E j \in DOMAIN Is :
        /\ Is[j] < N
        /\ CumSum(Pstates)[Is[j]] = U[j].u
        /\ Pstates[Is[j] + 1] # R(0)

\* the iterations that have run to their end
Completed == IF pc \in {"IndexError", "LinAlgError"} THEN n ELSE n + 1

\* C11: after k iterations the acceptance record holds k batches of N values,
\* k*N values in all, each in [0,1], and the j-th value of the batch of the
\* last iteration is 1 - Pstates[Is[j]] with that iteration's weights and draws
C11_AcceptanceRecord ==
    /\ Len(AcceptVals) = Completed
    /\ Len(Concatenate(AcceptVals, 0, Len(AcceptVals))) = Completed * N
    /\ \A k \in 1 .. Len(AcceptVals) :
          /\ DOMAIN AcceptVals[k] = 0 .. (N - 1)
          /\ \A j \in 0 .. (N - 1) :
                /\ ~RLess(AcceptVals[k][j], R(0))
                /\ ~RLess(R(1), AcceptVals[k][j])
    /\ (pc \in {"loop", "done"} /\ n >= 0) =>
          \A j \in 0 .. (N - 1) :
             AcceptVals[n + 1][j] = RSub(R(1), Pstates[Is[j]])

\* two iterations have run, and a draw at position j chose a proposal other
\* than j whose weight differs from that of proposal j
C11_Witness ==
    /\ pc = "done"
    /\ Len(AcceptVals) >= 2
    /\ \E j \in 0 .. (N - 1) :
          /\ Is[j] # j
          /\ Pstates[Is[j]] # Pstates[j]
          /\ RLess(R(0), AcceptVals[n + 1][j])
          /\ RLess(AcceptVals[n + 1][j], R(1))
\* C12 (the trajectory): after k iterations xVals holds the seed x0 followed by
\* k batches of N resampled states, and a step never changes or removes an
\* entry that is already there
C12_AppendOnly ==
    [][/\ Len(xVals') >= Len(xVals)
       /\ SubSeq(xVals', 1, Len(xVals)) = xVals
       /\ xVals'[1] = x0'
       /\ Len(xVals') = Completed' + 1
       /\ \A k \in 2 .. Len(xVals') : DOMAIN xVals'[k] = 0 .. (N' - 1)]_vars

\* C12: getSamples(BurnIn) with BurnIn no larger than the number of resampled
\* states returns the NumOfIter*N - BurnIn rows that follow the first BurnIn
\* resampled states, the seed excluded
C12_GetSamplesRows ==
    (result.op = "getSamples" /\ result.BurnIn <= NumOfIter * N) =>
        /\ result.raised = ""
        /\ Len(result.value) = NumOfIter * N - result.BurnIn
        /\ \A r \in 1 .. Len(result.value) :
              LET at == result.BurnIn + r - 1
              IN  result.value[r] = xVals[2 + (at \div N)][at % N]

\* C13: a query, with whatever burn-in and after whatever other queries,
\* leaves xVals, AcceptVals, WeightedSum, WeightedCov, ApprPostMean and
\* ApprPostCov as they were
C13_QueriesArePure ==
    [][pc = "done" =>
          UNCHANGED <<xVals, AcceptVals, WeightedSum, WeightedCov,
                      ApprPostMean, ApprPostCov>>]_vars

\* a query with a burn-in has answered on a run of two or more iterations
C13_Witness ==
    /\ pc = "done"
    /\ result.op \in {"getSamples", "getAcceptRate",
                      "getIS_MeanEstimate", "getIS_CovEstimate"}
    /\ result.BurnIn > 0
    /\ Len(xVals) >= 3
\* the configuration is one that construction has to refuse
InvalidConfiguration == ~PosDef(InitCov) \/ N <= 0 \/ StepSize <= 0

\* C14: construction with a non-positive-definite InitCov, a non-positive N
\* or a non-positive StepSize never enters the loop body, never records a
\* sample or an acceptance value, and never completes normally
C14_InvalidConfigurationAborts ==
    InvalidConfiguration =>
        /\ pc # "done"
        /\ n = -1
        /\ Len(xVals) = 1
        /\ AcceptVals = <<>>
\* the slots of WeightedCov that hold the initial covariance
SeededSlots == {i \in DOMAIN WeightedCov : WeightedCov[i] = InitCov}

\* C15: when the loop is entered exactly int(WeightIn/N) accumulator slots
\* hold the initial estimates, none with WeightIn = 0
C15_SeededWeightInTimes ==
    (pc = "loop" /\ n = -1) =>
        /\ Cardinality(SeededSlots) = TruncDiv(WeightIn, N)
        /\ (WeightIn = 0 => SeededSlots = {})
C18_MeanEstimate ==
    result.op = "getIS_MeanEstimate" =>
        LET size == NumOfIter + M
            start == result.BurnIn \div N
        IN  /\ result.raised = ""
            /\ start < size =>
                  result.value = RDivInt(RSub(RSum(WeightedSum, size),
                                              RSum(WeightedSum, start)),
                                         size - start)
            /\ result.BurnIn = 0 => result.value = ApprPostMean

\* getIS_MeanEstimate(N, 0) has answered after two or more iterations behind
\* two or more seeded slots, with an estimate away from the initial mean
C18_Witness ==
    /\ result.op = "getIS_MeanEstimate"
    /\ result.BurnIn = 0
    /\ NumOfIter >= 2
    /\ M >= 2
    /\ result.value # InitMean
    /\ result.value = ApprPostMean
====
